---- MODULE Spec2Model ----
(***************************************************************************)
(* A model of the tree-walking interpreter of src/interpreter.ts.          *)
(*                                                                         *)
(* Environments are JavaScript objects with identity: a closure keeps a    *)
(* reference to the Env it was created in, so the model keeps a heap of    *)
(* Env objects and closures hold heap addresses.  The recursive function   *)
(* `interpret` is modelled as a machine with an explicit stack of the      *)
(* pending `interpret` invocations.                                        *)
(***************************************************************************)
EXTENDS Integers, Sequences, FiniteSets, TLC

\* Every term (src/types.ts) and every Value is an object tagged by `kind`.
KindOf(x) == x.kind

VARIABLES
    prog,      \* file.expression, the term handed to interpretFile
    mode,      \* "eval" | "ret" | "done" | "error"
    term,      \* the term of the running interpret(term, env) invocation
    env,       \* heap address of its env
    value,     \* the Value being returned (mode "ret") or the result ("done")
    error,     \* the Error thrown (mode "error")
    stack,     \* the suspended interpret invocations, innermost last
    heap,      \* the Env objects allocated so far, by address
    output,    \* the lines written by console.log
    left,      \* interpretBinary's first operand  (SpecBinary)
    right,     \* interpretBinary's second operand (SpecBinary)
    op,        \* interpretBinary's operator       (SpecBinary)
    result,    \* what interpretBinary returned or threw (SpecBinary)
    round      \* how many results were fed back as operands (SpecBinary)

vars == <<prog, mode, term, env, value, error, stack, heap, output,
          left, right, op, result, round>>

machineVars == <<prog, mode, term, env, value, error, stack, heap, output>>
binaryVars == <<left, right, op, result, round>>

----------------------------------------------------------------------------
(* Bounds of the model.                                                    *)

\* Int literals range over -MaxInt .. MaxInt.
MaxInt == 3
\* SpecBinary feeds at most MaxRounds results back as operands.
MaxRounds == 1
\* The depth of `interpret` invocations the engine's call stack has room for.
MaxStack == 12

----------------------------------------------------------------------------
(* JavaScript numbers.  Int literals are integers and every operator maps  *)
(* integers to integers, -0, NaN or an infinity, so a number is one of     *)
(* these.  The magnitudes reached here are far below 2^53, where double    *)
(* arithmetic on integers is exact.                                        *)

Fin(n) == [c |-> "fin", n |-> n]
NegZero == [c |-> "nzero", n |-> 0]
NaN == [c |-> "nan", n |-> 0]
PosInf == [c |-> "inf", n |-> 0]
NegInf == [c |-> "ninf", n |-> 0]

IsNaN(x) == x.c = "nan"
IsInfinite(x) == x.c \in {"inf", "ninf"}
IsZero(x) == x.c = "nzero" \/ (x.c = "fin" /\ x.n = 0)
\* The sign bit of a number that is not NaN.
IsNegative(x) == x.c \in {"ninf", "nzero"} \/ (x.c = "fin" /\ x.n < 0)
SignedInf(neg) == IF neg THEN NegInf ELSE PosInf
SignedZero(neg) == IF neg THEN NegZero ELSE Fin(0)
Negate(x) ==
    CASE x.c = "nan" -> NaN
      [] x.c = "inf" -> NegInf
      [] x.c = "ninf" -> PosInf
      [] x.c = "nzero" -> Fin(0)
      [] OTHER -> IF x.n = 0 THEN NegZero ELSE Fin(-x.n)

Abs(n) == IF n < 0 THEN -n ELSE n
\* Integer quotient rounded toward zero, and the remainder that goes with it.
TruncDiv(a, b) ==
    IF (a < 0) = (b < 0) THEN Abs(a) \div Abs(b) ELSE -(Abs(a) \div Abs(b))
TruncRem(a, b) == a - b * TruncDiv(a, b)

\* x + y
NumAdd(x, y) ==
    CASE IsNaN(x) \/ IsNaN(y) -> NaN
      [] IsInfinite(x) /\ IsInfinite(y) -> IF x.c = y.c THEN x ELSE NaN
      [] IsInfinite(x) -> x
      [] IsInfinite(y) -> y
      [] IsZero(x) /\ IsZero(y) -> SignedZero(IsNegative(x) /\ IsNegative(y))
      [] OTHER -> Fin(x.n + y.n)

\* x - y
NumSub(x, y) == NumAdd(x, Negate(y))

\* x * y
NumMul(x, y) ==
    CASE IsNaN(x) \/ IsNaN(y) -> NaN
      [] (IsInfinite(x) /\ IsZero(y)) \/ (IsZero(x) /\ IsInfinite(y)) -> NaN
      [] IsInfinite(x) \/ IsInfinite(y) -> SignedInf(IsNegative(x) # IsNegative(y))
      [] IsZero(x) \/ IsZero(y) -> SignedZero(IsNegative(x) # IsNegative(y))
      [] OTHER -> Fin(x.n * y.n)

\* Math.floor(x / y)
NumFloorDiv(x, y) ==
    CASE IsNaN(x) \/ IsNaN(y) -> NaN
      [] IsInfinite(x) /\ IsInfinite(y) -> NaN
      [] IsZero(x) /\ IsZero(y) -> NaN
      [] IsInfinite(x) \/ IsZero(y) -> SignedInf(IsNegative(x) # IsNegative(y))
      [] IsInfinite(y) \/ IsZero(x) -> SignedZero(IsNegative(x) # IsNegative(y))
      [] OTHER ->
            LET q == TruncDiv(x.n, y.n)
                exact == TruncRem(x.n, y.n) = 0
            IN  IF exact \/ ((x.n < 0) = (y.n < 0)) THEN Fin(q) ELSE Fin(q - 1)

\* Math.floor(x % y): % takes the sign of the dividend, and Math.floor leaves
\* an integer, a zero, NaN and the infinities as they are.
NumFloorRem(x, y) ==
    CASE IsNaN(x) \/ IsNaN(y) -> NaN
      [] IsInfinite(x) \/ IsZero(y) -> NaN
      [] IsInfinite(y) \/ IsZero(x) -> x
      [] OTHER ->
            LET r == TruncRem(x.n, y.n)
            IN  IF r = 0 THEN SignedZero(x.n < 0) ELSE Fin(r)

\* x == y on numbers
NumEq(x, y) ==
    CASE IsNaN(x) \/ IsNaN(y) -> FALSE
      [] IsInfinite(x) \/ IsInfinite(y) -> x.c = y.c
      [] OTHER -> x.n = y.n

\* x < y
NumLt(x, y) ==
    CASE IsNaN(x) \/ IsNaN(y) -> FALSE
      [] x.c = "inf" \/ y.c = "ninf" -> FALSE
      [] x.c = "ninf" \/ y.c = "inf" -> TRUE
      [] OTHER -> x.n < y.n

Digits == <<"0", "1", "2", "3", "4", "5", "6", "7", "8", "9">>

RECURSIVE NatToString(_)
NatToString(n) ==
    IF n < 10 THEN Digits[n + 1]
    ELSE NatToString(n \div 10) \o Digits[(n % 10) + 1]

\* Number.prototype.toString
NumToString(x) ==
    CASE x.c = "nan" -> "NaN"
      [] x.c = "inf" -> "Infinity"
      [] x.c = "ninf" -> "-Infinity"
      [] x.c = "nzero" -> "0"
      [] OTHER -> IF x.n < 0 THEN "-" \o NatToString(-x.n) ELSE NatToString(x.n)

----------------------------------------------------------------------------
(* Values.                                                                 *)

VNumber(x) == [kind |-> "number", value |-> x]
VString(s) == [kind |-> "string", value |-> s]
VBoolean(b) == [kind |-> "boolean", value |-> b]
VClosure(body, parameters, e) ==
    [kind |-> "closure",
     value |-> [body |-> body, parameters |-> parameters, env |-> e]]
VTuple(fst, snd) == [kind |-> "tuple", fst |-> fst, snd |-> snd]
\* A function inherited from Object.prototype, which a lookup in
\* env.objects can return: an object with no `kind`.
VHost(name) == [kind |-> "undefined", value |-> name]

ValueKinds == {"boolean", "string", "number", "closure", "tuple"}

\* What a function returns, or the Error it throws.
Ok(x) == [ok |-> TRUE, v |-> x]
Throw(x) == [ok |-> FALSE, v |-> x]

\* typeMismatch: throw new Error(`not a ${type}`)
typeMismatch(type) == Throw([error |-> "TypeMismatch", type |-> type])

assertInt(v) ==
    IF v.kind = "number" THEN Ok(v.value) ELSE typeMismatch("int")

assertTuple(v) ==
    IF v.kind = "tuple" THEN Ok(<<v.fst, v.snd>>) ELSE typeMismatch("tuple")

assertClosure(v) ==
    IF v.kind = "closure" THEN Ok(v.value) ELSE typeMismatch("closure")

assertBool(v) ==
    IF v.kind = "boolean" THEN Ok(v.value) ELSE typeMismatch("closure")

castToString(v) ==
    CASE v.kind = "number" -> Ok(NumToString(v.value))
      [] v.kind = "string" -> Ok(v.value)
      [] OTHER -> typeMismatch("string or int")

\* isEqual without its last branch: operands of differing kinds are unequal.
isEqual_NoTypeCheck(l, r) ==
    CASE l.kind = "number" /\ r.kind = "number" -> Ok(NumEq(l.value, r.value))
      [] l.kind = "string" /\ r.kind = "string" -> Ok(l.value = r.value)
      [] l.kind = "boolean" /\ r.kind = "boolean" -> Ok(l.value = r.value)
      [] OTHER -> Ok(FALSE)

isEqual(l, r) ==
    CASE l.kind = "number" /\ r.kind = "number" -> Ok(NumEq(l.value, r.value))
      [] l.kind = "string" /\ r.kind = "string" -> Ok(l.value = r.value)
      [] l.kind = "boolean" /\ r.kind = "boolean" -> Ok(l.value = r.value)
      [] OTHER -> typeMismatch("number or string or boolean")

\* assertInt(left) and then assertInt(right), as Sub, Mul, Div, Rem, Lt, Gt,
\* Lte and Gte start: the first Error thrown, or both numbers.
assertInts(l, r) ==
    LET lv == assertInt(l)
        rv == assertInt(r)
    IN  IF ~lv.ok THEN lv ELSE IF ~rv.ok THEN rv ELSE Ok(<<lv.v, rv.v>>)

\* assertBool(left) and then assertBool(right), as And and Or start.
assertBools(l, r) ==
    LET lv == assertBool(l)
        rv == assertBool(r)
    IN  IF ~lv.ok THEN lv ELSE IF ~rv.ok THEN rv ELSE Ok(<<lv.v, rv.v>>)

BinaryOps ==
    {"Add", "Sub", "Mul", "Div", "Rem", "Eq", "Neq",
     "Lt", "Gt", "Lte", "Gte", "And", "Or"}

interpretBinary(l, r, o) ==
    LET n == assertInts(l, r)
        b == assertBools(l, r)
        e == isEqual(l, r)
    IN  CASE o = "Add" ->
                IF l.kind = "number" /\ r.kind = "number"
                THEN Ok(VNumber(NumAdd(l.value, r.value)))
                ELSE LET lv == castToString(l)
                         rv == castToString(r)
                     IN  IF ~lv.ok THEN lv
                         ELSE IF ~rv.ok THEN rv
                         ELSE Ok(VString(lv.v \o rv.v))
          [] o = "Eq" -> IF e.ok THEN Ok(VBoolean(e.v)) ELSE e
          [] o = "Neq" -> IF e.ok THEN Ok(VBoolean(~e.v)) ELSE e
          [] o = "Sub" ->
                IF n.ok THEN Ok(VNumber(NumSub(n.v[1], n.v[2]))) ELSE n
          [] o = "Mul" ->
                IF n.ok THEN Ok(VNumber(NumMul(n.v[1], n.v[2]))) ELSE n
          [] o = "Div" ->
                IF n.ok THEN Ok(VNumber(NumFloorDiv(n.v[1], n.v[2]))) ELSE n
          [] o = "Rem" ->
                IF n.ok THEN Ok(VNumber(NumFloorRem(n.v[1], n.v[2]))) ELSE n
          [] o = "Lt" ->
                IF n.ok THEN Ok(VBoolean(NumLt(n.v[1], n.v[2]))) ELSE n
          [] o = "Gt" ->
                IF n.ok THEN Ok(VBoolean(NumLt(n.v[2], n.v[1]))) ELSE n
          [] o = "Lte" ->
                IF n.ok
                THEN Ok(VBoolean(NumLt(n.v[1], n.v[2]) \/ NumEq(n.v[1], n.v[2])))
                ELSE n
          [] o = "Gte" ->
                IF n.ok
                THEN Ok(VBoolean(NumLt(n.v[2], n.v[1]) \/ NumEq(n.v[1], n.v[2])))
                ELSE n
          [] o = "And" -> IF b.ok THEN Ok(VBoolean(b.v[1] /\ b.v[2])) ELSE b
          [] o = "Or" -> IF b.ok THEN Ok(VBoolean(b.v[1] \/ b.v[2])) ELSE b

RECURSIVE showValue(_)
showValue(v) ==
    CASE v.kind = "number" -> NumToString(v.value)
      [] v.kind = "boolean" -> IF v.value THEN "true" ELSE "false"
      [] v.kind = "string" -> v.value
      [] v.kind = "closure" -> "<#closure>"
      [] v.kind = "tuple" ->
            "(" \o showValue(v.fst) \o "," \o showValue(v.snd) \o ")"
      \* no case matches an object without `kind`: the switch falls through,
      \* the function returns undefined, and that prints as "undefined"
      [] OTHER -> "undefined"

----------------------------------------------------------------------------
(* Terms (src/types.ts), without their locations, which the interpreter    *)
(* never reads.                                                            *)

Parameter(text) == [text |-> text]
IntTerm(n) == [kind |-> "Int", value |-> n]
StrTerm(s) == [kind |-> "Str", value |-> s]
BoolTerm(b) == [kind |-> "Bool", value |-> b]
VarTerm(text) == [kind |-> "Var", text |-> text]
IfTerm(c, t, o) == [kind |-> "If", condition |-> c, then |-> t, otherwise |-> o]
LetTerm(n, v, nx) == [kind |-> "Let", name |-> Parameter(n), value |-> v, next |-> nx]
BinaryTerm(l, o, r) == [kind |-> "Binary", lhs |-> l, op |-> o, rhs |-> r]
CallTerm(c, as) == [kind |-> "Call", callee |-> c, arguments |-> as]
FunctionTerm(ps, v) == [kind |-> "Function", parameters |-> ps, value |-> v]
FirstTerm(v) == [kind |-> "First", value |-> v]
SecondTerm(v) == [kind |-> "Second", value |-> v]
TupleTerm(a, b) == [kind |-> "Tuple", first |-> a, second |-> b]
PrintTerm(v) == [kind |-> "Print", value |-> v]

\* fn (p1, ..., pn) => body, from the parameters' texts
Fn(texts, body) ==
    FunctionTerm([i \in 1 .. Len(texts) |-> Parameter(texts[i])], body)

----------------------------------------------------------------------------
(* Environments.  env.objects is a plain object: its own properties are    *)
(* the bindings, and a read of a name it does not own falls through to     *)
(* Object.prototype.                                                       *)

\* {}
EmptyObjects == [n \in {} |-> 0]

\* Names that every plain object inherits from Object.prototype (each a
\* function or an object, hence truthy).
ObjectPrototype ==
    {"constructor", "hasOwnProperty", "isPrototypeOf", "propertyIsEnumerable",
     "toLocaleString", "toString", "valueOf"}

\* objects[name], for a name other than "__proto__"
GetProp(objects, name) ==
    IF name \in DOMAIN objects THEN Ok(objects[name])
    ELSE IF name \in ObjectPrototype THEN Ok(VHost(name))
    ELSE Throw("undefined")

\* objects[name] = v, for a name other than "__proto__"
SetProp(objects, name, v) == (name :> v) @@ objects

\* cloneEnv(env), allocated at the next free address of heap h
cloneEnv(h, e) == Append(h, [objects |-> h[e].objects])

\* The address cloneEnv's result gets.
NewAddress(h) == Len(h) + 1

----------------------------------------------------------------------------
(* The machine.                                                            *)

NoValue == [kind |-> "none"]
NoError == [error |-> "none"]

\* A suspended invocation interpret(term, env), where it waits (pc), and its
\* locals: `saved` is fst (Tuple) or left (Binary), `closure` the callee
\* (Call), `scope` the address of newEnv (Let) or functionEnv (Call), `i` the
\* loop index (Call).
Frame(t, e, pc) ==
    [term |-> t, env |-> e, pc |-> pc,
     saved |-> NoValue, closure |-> NoValue, scope |-> 0, i |-> 0]
Top == stack[Len(stack)]
Pop == SubSeq(stack, 1, Len(stack) - 1)
ReplaceTop(f) == [stack EXCEPT ![Len(stack)] = f]

\* interpret(term, env) has just been entered with a term of this kind.
Evaluating(kind) ==
    mode = "eval" /\ KindOf(term) = kind /\ Len(stack) < MaxStack

\* The innermost suspended invocation, of a term of this kind, waits at pc
\* for the value that is being returned.
Waiting(kind, pc) ==
    mode = "ret" /\ stack # <<>> /\ KindOf(Top.term) = kind /\ Top.pc = pc

\* return v
Return(v) ==
    /\ mode' = "ret"
    /\ value' = v
    /\ UNCHANGED <<prog, term, env, error, stack, heap, output>>

\* throw e: nothing catches it, the whole call stack unwinds
Raise(e) ==
    /\ mode' = "error"
    /\ error' = e
    /\ stack' = <<>>
    /\ UNCHANGED <<prog, term, env, value, heap, output>>

\* call interpret(t, e)
Enter(t, e) == mode' = "eval" /\ term' = t /\ env' = e

InterpretStr ==
    /\ Evaluating("Str")
    /\ Return(VString(term.value))
    /\ UNCHANGED binaryVars

InterpretBool ==
    /\ Evaluating("Bool")
    /\ Return(VBoolean(term.value))
    /\ UNCHANGED binaryVars

InterpretInt ==
    /\ Evaluating("Int")
    /\ Return(VNumber(Fin(term.value)))
    /\ UNCHANGED binaryVars

InterpretIf ==
    /\ Evaluating("If")
    /\ stack' = Append(stack, Frame(term, env, "condition"))
    /\ Enter(term.condition, env)
    /\ UNCHANGED <<prog, value, error, heap, output>>
    /\ UNCHANGED binaryVars

IfCondition ==
    /\ Waiting("If", "condition")
    /\ LET boolean == assertBool(value)
       IN  IF ~boolean.ok THEN Raise(boolean.v)
           ELSE /\ stack' = ReplaceTop([Top EXCEPT !.pc = "branch"])
                /\ Enter(IF boolean.v THEN Top.term.then ELSE Top.term.otherwise,
                         Top.env)
                /\ UNCHANGED <<prog, value, error, heap, output>>
    /\ UNCHANGED binaryVars

IfReturn ==
    /\ Waiting("If", "branch")
    /\ stack' = Pop
    /\ UNCHANGED <<prog, mode, term, env, value, error, heap, output>>
    /\ UNCHANGED binaryVars

InterpretTuple ==
    /\ Evaluating("Tuple")
    /\ stack' = Append(stack, Frame(term, env, "first"))
    /\ Enter(term.first, env)
    /\ UNCHANGED <<prog, value, error, heap, output>>
    /\ UNCHANGED binaryVars

TupleFirst ==
    /\ Waiting("Tuple", "first")
    /\ stack' = ReplaceTop([Top EXCEPT !.pc = "second", !.saved = value])
    /\ Enter(Top.term.second, Top.env)
    /\ UNCHANGED <<prog, value, error, heap, output>>
    /\ UNCHANGED binaryVars

TupleSecond ==
    /\ Waiting("Tuple", "second")
    /\ stack' = Pop
    /\ mode' = "ret"
    /\ value' = VTuple(Top.saved, value)
    /\ UNCHANGED <<prog, term, env, error, heap, output>>
    /\ UNCHANGED binaryVars

InterpretFirst ==
    /\ Evaluating("First")
    /\ stack' = Append(stack, Frame(term, env, "value"))
    /\ Enter(term.value, env)
    /\ UNCHANGED <<prog, value, error, heap, output>>
    /\ UNCHANGED binaryVars

FirstValue ==
    /\ Waiting("First", "value")
    /\ LET pair == assertTuple(value)
       IN  IF ~pair.ok THEN Raise(pair.v)
           ELSE /\ stack' = Pop
                /\ mode' = "ret"
                /\ value' = pair.v[1]
                /\ UNCHANGED <<prog, term, env, error, heap, output>>
    /\ UNCHANGED binaryVars

InterpretSecond ==
    /\ Evaluating("Second")
    /\ stack' = Append(stack, Frame(term, env, "value"))
    /\ Enter(term.value, env)
    /\ UNCHANGED <<prog, value, error, heap, output>>
    /\ UNCHANGED binaryVars

SecondValue ==
    /\ Waiting("Second", "value")
    /\ LET pair == assertTuple(value)
       IN  IF ~pair.ok THEN Raise(pair.v)
           ELSE /\ stack' = Pop
                /\ mode' = "ret"
                /\ value' = pair.v[2]
                /\ UNCHANGED <<prog, term, env, error, heap, output>>
    /\ UNCHANGED binaryVars

\* interpret(term.rhs, env) where the lhs should be evaluated.
InterpretBinary_RhsFirst ==
    /\ Evaluating("Binary")
    /\ stack' = Append(stack, Frame(term, env, "lhs"))
    /\ Enter(term.rhs, env)
    /\ UNCHANGED <<prog, value, error, heap, output>>
    /\ UNCHANGED binaryVars

InterpretBinary ==
    /\ Evaluating("Binary")
    /\ stack' = Append(stack, Frame(term, env, "lhs"))
    /\ Enter(term.lhs, env)
    /\ UNCHANGED <<prog, value, error, heap, output>>
    /\ UNCHANGED binaryVars

\* A short-circuiting And and Or: with the left operand deciding the result,
\* the right operand is not evaluated.
BinaryLhs_ShortCircuit ==
    /\ Waiting("Binary", "lhs")
    /\ IF value.kind = "boolean"
          /\ ((Top.term.op = "And" /\ ~value.value) \/ (Top.term.op = "Or" /\ value.value))
       THEN /\ stack' = Pop
            /\ UNCHANGED <<prog, mode, term, env, value, error, heap, output>>
       ELSE /\ stack' = ReplaceTop([Top EXCEPT !.pc = "rhs", !.saved = value])
            /\ Enter(Top.term.rhs, Top.env)
            /\ UNCHANGED <<prog, value, error, heap, output>>
    /\ UNCHANGED binaryVars

BinaryLhs ==
    /\ Waiting("Binary", "lhs")
    /\ stack' = ReplaceTop([Top EXCEPT !.pc = "rhs", !.saved = value])
    /\ Enter(Top.term.rhs, Top.env)
    /\ UNCHANGED <<prog, value, error, heap, output>>
    /\ UNCHANGED binaryVars

BinaryRhs ==
    /\ Waiting("Binary", "rhs")
    /\ LET r == interpretBinary(Top.saved, value, Top.term.op)
       IN  IF ~r.ok THEN Raise(r.v)
           ELSE /\ stack' = Pop
                /\ mode' = "ret"
                /\ value' = r.v
                /\ UNCHANGED <<prog, term, env, error, heap, output>>
    /\ UNCHANGED binaryVars

InterpretPrint ==
    /\ Evaluating("Print")
    /\ stack' = Append(stack, Frame(term, env, "value"))
    /\ Enter(term.value, env)
    /\ UNCHANGED <<prog, value, error, heap, output>>
    /\ UNCHANGED binaryVars

PrintValue ==
    /\ Waiting("Print", "value")
    /\ output' = Append(output, showValue(value))
    /\ stack' = Pop
    /\ UNCHANGED <<prog, mode, term, env, value, error, heap>>
    /\ UNCHANGED binaryVars

\* throw new Error(`cannot find variable ${term.text}`)
UnboundVariable(name) == [error |-> "UnboundVariable", text |-> name]

InterpretVar ==
    /\ Evaluating("Var")
    /\ LET v == GetProp(heap[env].objects, term.text)
       IN  IF v.ok THEN Return(v.v)
           ELSE Raise(UnboundVariable(term.text))
    /\ UNCHANGED binaryVars

\* interpret(term.value, env): the value sees the Let's outer env only.
LetValueEnv_Outer(e, newEnv) == e

\* The env `let value = interpret(term.value, newEnv)` runs in.
LetValueEnv(e, newEnv) == newEnv

InterpretLet ==
    /\ Evaluating("Let")
    /\ heap' = cloneEnv(heap, env)
    /\ stack' = Append(stack,
                       [Frame(term, env, "value") EXCEPT !.scope = NewAddress(heap)])
    /\ Enter(term.value, LetValueEnv(env, NewAddress(heap)))
    /\ UNCHANGED <<prog, value, error, output>>
    /\ UNCHANGED binaryVars

LetValue ==
    /\ Waiting("Let", "value")
    /\ heap' = [heap EXCEPT ![Top.scope].objects =
                                SetProp(@, Top.term.name.text, value)]
    /\ stack' = ReplaceTop([Top EXCEPT !.pc = "next"])
    /\ Enter(Top.term.next, Top.scope)
    /\ UNCHANGED <<prog, value, error, output>>
    /\ UNCHANGED binaryVars

LetReturn ==
    /\ Waiting("Let", "next")
    /\ stack' = Pop
    /\ UNCHANGED <<prog, mode, term, env, value, error, heap, output>>
    /\ UNCHANGED binaryVars

InterpretCall ==
    /\ Evaluating("Call")
    /\ stack' = Append(stack, Frame(term, env, "callee"))
    /\ Enter(term.callee, env)
    /\ UNCHANGED <<prog, value, error, heap, output>>
    /\ UNCHANGED binaryVars

\* throw new Error(`expected ${expected} arguments but instead got ${got}`)
ArityMismatch(expected, got) ==
    [error |-> "ArityMismatch", expected |-> expected, got |-> got]

\* closure.parameters.length > term.arguments.length: arguments beyond the
\* parameters are tolerated.
ArityDiffers_Fewer(closure, t) == Len(closure.parameters) > Len(t.arguments)

\* closure.parameters.length != term.arguments.length
ArityDiffers(closure, t) == Len(closure.parameters) # Len(t.arguments)

\* interpret(term.arguments[i], functionEnv): the arguments see the callee's
\* env.
ArgumentEnv_Callee(f) == f.scope

\* The env of interpret(term.arguments[i], env) in the invocation f.
ArgumentEnv(f) == f.env

\* closure.env.objects[...] = ...: the parameters are bound in the captured
\* env itself, not in its clone.
ArgumentTarget_Captured(f) == f.closure.value.env

\* The env whose objects[closure.parameters[i]] the invocation f assigns.
ArgumentTarget(f) == f.scope

CallCallee ==
    /\ Waiting("Call", "callee")
    /\ LET closure == assertClosure(value)
           functionEnv == NewAddress(heap)
           f == [Top EXCEPT !.closure = value, !.scope = functionEnv]
       IN  IF ~closure.ok THEN Raise(closure.v)
           ELSE IF ArityDiffers(closure.v, Top.term)
           THEN Raise(ArityMismatch(Len(closure.v.parameters),
                                    Len(Top.term.arguments)))
           ELSE /\ heap' = cloneEnv(heap, closure.v.env)
                /\ IF Len(closure.v.parameters) = 0
                   THEN /\ stack' = ReplaceTop([f EXCEPT !.pc = "body"])
                        /\ Enter(closure.v.body, functionEnv)
                   ELSE /\ stack' = ReplaceTop([f EXCEPT !.pc = "argument", !.i = 1])
                        /\ Enter(Top.term.arguments[1], ArgumentEnv(f))
                /\ UNCHANGED <<prog, value, error, output>>
    /\ UNCHANGED binaryVars

CallArgument ==
    /\ Waiting("Call", "argument")
    /\ LET closure == Top.closure.value
           i == Top.i
       IN  /\ heap' = [heap EXCEPT ![ArgumentTarget(Top)].objects =
                                       SetProp(@, closure.parameters[i], value)]
           /\ IF i < Len(closure.parameters)
              THEN /\ stack' = ReplaceTop([Top EXCEPT !.i = i + 1])
                   /\ Enter(Top.term.arguments[i + 1], ArgumentEnv(Top))
              ELSE /\ stack' = ReplaceTop([Top EXCEPT !.pc = "body"])
                   /\ Enter(closure.body, Top.scope)
    /\ UNCHANGED <<prog, value, error, output>>
    /\ UNCHANGED binaryVars

CallReturn ==
    /\ Waiting("Call", "body")
    /\ stack' = Pop
    /\ UNCHANGED <<prog, mode, term, env, value, error, heap, output>>
    /\ UNCHANGED binaryVars

\* The env a Function literal evaluated in env e stores in its closure.
CapturedEnv(e) == e

InterpretFunction ==
    /\ Evaluating("Function")
    /\ Return(VClosure(term.value,
                       [i \in 1 .. Len(term.parameters) |-> term.parameters[i].text],
                       CapturedEnv(env)))
    /\ UNCHANGED binaryVars

\* The engine's call stack is full: RangeError.
StackOverflow ==
    /\ mode = "eval"
    /\ Len(stack) >= MaxStack
    /\ Raise([error |-> "RangeError"])
    /\ UNCHANGED binaryVars

\* interpretFile returns what interpret(file.expression, env) returned.
InterpretFileReturn ==
    /\ mode = "ret"
    /\ stack = <<>>
    /\ mode' = "done"
    /\ UNCHANGED <<prog, term, env, value, error, stack, heap, output>>
    /\ UNCHANGED binaryVars

----------------------------------------------------------------------------
(* Programs.                                                               *)

\* Int literals range over -MaxInt .. MaxInt.
IntLiterals == {IntTerm(n) : n \in -MaxInt .. MaxInt}

Literals == IntLiterals \cup {StrTerm("a"), BoolTerm(TRUE), BoolTerm(FALSE)}

Names == {"x", "y", "f", "z", "toString"}

Variables == {VarTerm(n) : n \in Names}

\* Operands of every kind of value, and a name no program binds.
Operands ==
    {IntTerm(-1), IntTerm(0), IntTerm(2), StrTerm("a"), BoolTerm(TRUE),
     BoolTerm(FALSE), TupleTerm(IntTerm(1), BoolTerm(TRUE)),
     Fn(<<"x">>, VarTerm("x")), VarTerm("toString"), VarTerm("y")}

\* A literal, a variable, or one node over literals.
UnaryPrograms ==
    Literals \cup Variables
    \cup {PrintTerm(a) : a \in Operands}
    \cup {FirstTerm(a) : a \in Operands}
    \cup {SecondTerm(a) : a \in Operands}
    \cup {PrintTerm(PrintTerm(a)) : a \in Literals}

\* print(a) op print(b)
BinaryPrograms ==
    {BinaryTerm(PrintTerm(a), o, PrintTerm(b)) :
        a \in Operands, b \in Operands, o \in BinaryOps}

\* (print(a), print(b)), and printed, projected or nested
TuplePrograms ==
    {TupleTerm(PrintTerm(a), PrintTerm(b)) : a \in Operands, b \in Operands}
    \cup {PrintTerm(TupleTerm(PrintTerm(a), PrintTerm(b))) :
            a \in Literals, b \in {IntTerm(2), StrTerm("a")}}
    \cup {FirstTerm(TupleTerm(PrintTerm(a), PrintTerm(b))) :
            a \in Literals, b \in {IntTerm(2), StrTerm("a")}}
    \cup {SecondTerm(TupleTerm(PrintTerm(a), PrintTerm(b))) :
            a \in Literals, b \in {IntTerm(2), StrTerm("a")}}
    \cup {TupleTerm(TupleTerm(PrintTerm(a), PrintTerm(IntTerm(0))), PrintTerm(b)) :
            a \in Literals, b \in {IntTerm(2), StrTerm("a")}}

\* if (print(c)) print(t) else print(o)
IfPrograms ==
    {IfTerm(PrintTerm(c), PrintTerm(t), PrintTerm(o)) :
        c \in Operands, t \in {IntTerm(1), VarTerm("y")}, o \in {IntTerm(2), VarTerm("y")}}

\* let n = print(v); print(body)
LetPrograms ==
    {LetTerm(n, PrintTerm(v), PrintTerm(b)) :
        n \in {"x", "toString"}, v \in Operands,
        b \in Variables \cup {BinaryTerm(VarTerm("x"), "Add", VarTerm("x"))}}

Parameters == {<<>>, <<"x">>, <<"y">>, <<"x", "y">>, <<"y", "y">>}

Bodies ==
    Variables \cup
    {BinaryTerm(VarTerm("x"), "Add", VarTerm("y")),
     PrintTerm(VarTerm("x")),
     TupleTerm(VarTerm("x"), VarTerm("y"))}

Arguments ==
    {<<>>, <<IntTerm(2)>>, <<VarTerm("x")>>, <<VarTerm("f")>>,
     <<PrintTerm(IntTerm(2))>>,
     <<PrintTerm(IntTerm(2)), PrintTerm(IntTerm(3))>>,
     <<PrintTerm(VarTerm("x")), PrintTerm(VarTerm("z"))>>,
     <<Fn(<<>>, VarTerm("x")), IntTerm(3)>>,
     <<PrintTerm(IntTerm(1)), PrintTerm(IntTerm(2)), PrintTerm(IntTerm(3))>>}

\* print(callee)(arguments)
CallPrograms ==
    {CallTerm(PrintTerm(c), as) :
        c \in Operands \cup {Fn(ps, b) : ps \in Parameters,
                                          b \in {VarTerm("x"), PrintTerm(VarTerm("y"))}},
        as \in Arguments}

\* let n1 = 1; let n2 = fn(ps) { body }; let n3 = 100; n4(arguments)
ClosurePrograms ==
    {LetTerm(n1, IntTerm(1),
        LetTerm(n2, Fn(ps, b),
            LetTerm(n3, IntTerm(100), CallTerm(VarTerm(n4), as)))) :
        n1 \in {"x", "z"}, n2 \in {"x", "f"}, n3 \in {"x", "z"}, n4 \in {"x", "f"},
        ps \in Parameters, b \in Bodies, as \in Arguments}

\* let n = fn(ps) { m }; n(arguments), at the top and under let z = 1
SelfProgramsAt(n, m, ps, as) ==
    LET t == LetTerm(n, Fn(ps, VarTerm(m)), CallTerm(VarTerm(n), as))
    IN  {t, LetTerm("z", IntTerm(1), t)}

SelfPrograms ==
    UNION {SelfProgramsAt(n, m, ps, as) :
             n \in {"f", "x"}, m \in {"f", "x"},
             ps \in Parameters, as \in Arguments}

\* let f = fn(n) { if (n < 1) { print(n) } else { f(n - 1) } }; f(k)
CountDown(k) ==
    LetTerm("f",
        Fn(<<"n">>,
           IfTerm(BinaryTerm(VarTerm("n"), "Lt", IntTerm(1)),
                  PrintTerm(VarTerm("n")),
                  CallTerm(VarTerm("f"),
                           <<BinaryTerm(PrintTerm(VarTerm("n")), "Sub", IntTerm(1))>>))),
        CallTerm(VarTerm("f"), <<IntTerm(k)>>))

\* let f = fn() { f() }; f()
Loop == LetTerm("f", Fn(<<>>, CallTerm(VarTerm("f"), <<>>)), CallTerm(VarTerm("f"), <<>>))

\* let f = (fn(g) { fn() { g } })(fn() { f }); f()()
Knot ==
    LetTerm("f",
        CallTerm(Fn(<<"g">>, Fn(<<>>, VarTerm("g"))), <<Fn(<<>>, VarTerm("f"))>>),
        CallTerm(CallTerm(VarTerm("f"), <<>>), <<>>))

\* let f = (let z = 5; fn(y) { body }); let x = 7; f(argument)
ScopePrograms ==
    {LetTerm("f", LetTerm("z", IntTerm(5), Fn(<<"y">>, b)),
        LetTerm("x", IntTerm(7), CallTerm(VarTerm("f"), <<a>>))) :
        b \in {VarTerm("z"), VarTerm("x"), VarTerm("y"), VarTerm("f"),
               TupleTerm(VarTerm("z"), VarTerm("y"))},
        a \in {VarTerm("z"), VarTerm("x"), VarTerm("f"), IntTerm(2),
               LetTerm("y", IntTerm(3), Fn(<<>>, VarTerm("y")))}}

\* let x = (fn, fn)-shaped values whose closures are made in the let's own env
NestedPrograms ==
    {LetTerm("x", IntTerm(1), LetTerm("x", Fn(<<>>, VarTerm("x")), CallTerm(VarTerm("x"), <<>>))),
     LetTerm("f", TupleTerm(Fn(<<>>, VarTerm("f")), IntTerm(1)),
        CallTerm(FirstTerm(VarTerm("f")), <<>>)),
     LetTerm("f", CallTerm(Fn(<<>>, Fn(<<>>, VarTerm("f"))), <<>>), CallTerm(VarTerm("f"), <<>>)),
     LetTerm("f", LetTerm("z", IntTerm(1), Fn(<<>>, VarTerm("f"))), CallTerm(VarTerm("f"), <<>>)),
     LetTerm("f", IfTerm(BoolTerm(TRUE), Fn(<<>>, VarTerm("f")), IntTerm(0)),
        CallTerm(VarTerm("f"), <<>>)),
     LetTerm("n", BinaryTerm(IntTerm(0), "Div", IntTerm(0)),
        PrintTerm(BinaryTerm(VarTerm("n"), "Eq", VarTerm("n")))),
     Loop, Knot}
    \cup {CountDown(k) : k \in 0 .. 2}

Programs ==
    UnaryPrograms \cup BinaryPrograms \cup TuplePrograms \cup IfPrograms
    \cup LetPrograms \cup CallPrograms \cup ClosurePrograms \cup SelfPrograms
    \cup ScopePrograms \cup NestedPrograms

\* interpretFile(file): interpret(file.expression, { objects: {} })
Init ==
    /\ prog \in Programs
    /\ mode = "eval"
    /\ term = prog
    /\ env = 1
    /\ value = NoValue
    /\ error = NoError
    /\ stack = <<>>
    /\ heap = <<[objects |-> EmptyObjects]>>
    /\ output = <<>>
    /\ left = NoValue
    /\ right = NoValue
    /\ op = "Add"
    /\ result = <<>>
    /\ round = 0

Next ==
    \/ InterpretStr
    \/ InterpretBool
    \/ InterpretInt
    \/ InterpretIf
    \/ IfCondition
    \/ IfReturn
    \/ InterpretTuple
    \/ TupleFirst
    \/ TupleSecond
    \/ InterpretFirst
    \/ FirstValue
    \/ InterpretSecond
    \/ SecondValue
    \/ InterpretBinary
    \/ BinaryLhs
    \/ BinaryRhs
    \/ InterpretPrint
    \/ PrintValue
    \/ InterpretVar
    \/ InterpretLet
    \/ LetValue
    \/ LetReturn
    \/ InterpretCall
    \/ CallCallee
    \/ CallArgument
    \/ CallReturn
    \/ InterpretFunction
    \/ StackOverflow
    \/ InterpretFileReturn

Spec == Init /\ [][Next]_vars

----------------------------------------------------------------------------
(* interpretBinary on its own: applied to operands that are values of      *)
(* literals, a tuple and a closure, and to what it returned itself.        *)

BinaryOperands ==
    {VNumber(Fin(n)) : n \in -MaxInt .. MaxInt}
    \cup {VString("a"), VString("b"), VBoolean(TRUE), VBoolean(FALSE),
          VTuple(VNumber(Fin(1)), VNumber(Fin(1))),
          VClosure(IntTerm(1), <<>>, 1)}

InitBinary ==
    /\ left \in BinaryOperands
    /\ right \in BinaryOperands
    /\ op \in BinaryOps
    /\ result = <<>>
    /\ round = 0
    /\ prog = IntTerm(0)
    /\ mode = "idle"
    /\ term = IntTerm(0)
    /\ env = 1
    /\ value = NoValue
    /\ error = NoError
    /\ stack = <<>>
    /\ heap = <<[objects |-> EmptyObjects]>>
    /\ output = <<>>

\* interpretBinary(left, right, op)
ApplyBinary ==
    /\ mode = "idle"
    /\ result = <<>>
    /\ result' = <<interpretBinary(left, right, op)>>
    /\ UNCHANGED <<left, right, op, round>>
    /\ UNCHANGED machineVars

\* The value returned becomes the left operand of another application.
FeedLeft ==
    /\ mode = "idle"
    /\ result # <<>>
    /\ result[1].ok
    /\ round < MaxRounds
    /\ left' = result[1].v
    /\ right' \in BinaryOperands \cup {result[1].v}
    /\ op' \in BinaryOps
    /\ result' = <<>>
    /\ round' = round + 1
    /\ UNCHANGED machineVars

\* The value returned becomes the right operand of another application.
FeedRight ==
    /\ mode = "idle"
    /\ result # <<>>
    /\ result[1].ok
    /\ round < MaxRounds
    /\ left' \in BinaryOperands
    /\ right' = result[1].v
    /\ op' \in BinaryOps
    /\ result' = <<>>
    /\ round' = round + 1
    /\ UNCHANGED machineVars

NextBinary ==
    \/ ApplyBinary
    \/ FeedLeft
    \/ FeedRight

SpecBinary == InitBinary /\ [][NextBinary]_vars

----------------------------------------------------------------------------
(* Claims about interpretBinary (checked under SpecBinary).                *)

\* interpretBinary has been applied to left and right.
Applied == result # <<>>

\* An integer: a finite number (0 with either sign).
IsInteger(v) == v.kind = "number" /\ v.value.c \in {"fin", "nzero"}

\* The floor of the real quotient a / b, b # 0: the q with q <= a / b < q + 1.
FloorQuotient(a, b) ==
    CHOOSE q \in -(Abs(a) + 1) .. (Abs(a) + 1) :
        IF b > 0 THEN q * b <= a /\ a < (q + 1) * b
                 ELSE q * b >= a /\ a > (q + 1) * b

\* C3: for all integers a and b with b # 0, Div yields the floor of the real
\* quotient a / b and Rem yields a - b * Div(a, b).
C3_DivRemFloor ==
    (Applied /\ op \in {"Div", "Rem"} /\ IsInteger(left) /\ IsInteger(right)
        /\ right.value.n # 0)
    => LET a == left.value.n
           b == right.value.n
           q == FloorQuotient(a, b)
       IN  /\ result[1].ok
           /\ result[1].v.kind = "number"
           /\ op = "Div" => NumEq(result[1].v.value, Fin(q))
           /\ op = "Rem" => NumEq(result[1].v.value, Fin(a - b * q))

\* Operands of the same kind among number, string and boolean.
Comparable(l, r) == l.kind = r.kind /\ l.kind \in {"number", "string", "boolean"}

IsTypeMismatch(r) == ~r.ok /\ r.v.error = "TypeMismatch"

\* Eq and Neq agree with each other and with the swapped operands.
EqSymmetricNeqNegation ==
    LET eq == interpretBinary(left, right, "Eq")
        qe == interpretBinary(right, left, "Eq")
        neq == interpretBinary(left, right, "Neq")
    IN  IF Comparable(left, right)
        THEN /\ result[1].ok /\ result[1].v.kind = "boolean"
             /\ eq.ok /\ qe.ok /\ neq.ok
             /\ eq.v = qe.v
             /\ neq.v.value = ~eq.v.value
        ELSE /\ IsTypeMismatch(result[1])
             /\ IsTypeMismatch(eq) /\ IsTypeMismatch(qe) /\ IsTypeMismatch(neq)

\* C7 as stated: for operands of the same kind among number, string and
\* boolean, Eq is reflexive and symmetric and Neq is its negation; for operands
\* of differing kinds, or a tuple or a closure, Eq and Neq fail with
\* TypeMismatch.
C7_EqReflexive ==
    (Applied /\ op \in {"Eq", "Neq"})
    => /\ EqSymmetricNeqNegation
       /\ (Comparable(left, right) /\ left = right)
            => result[1].v = VBoolean(op = "Eq")

\* C7, amended: as C7_EqReflexive, except that Eq is reflexive on every number
\* but NaN (what Div and Rem by zero can return): Eq(NaN, NaN) is false and
\* Neq(NaN, NaN) is true.
C7_EqLaws ==
    (Applied /\ op \in {"Eq", "Neq"})
    => /\ EqSymmetricNeqNegation
       /\ (Comparable(left, right) /\ left = right)
            => result[1].v = VBoolean((op = "Eq") # (left = VNumber(NaN)))

\* Eq has been applied to NaN and NaN, the result of 0 / 0.
C7_Witness ==
    /\ Applied
    /\ op = "Eq"
    /\ left = VNumber(NaN)
    /\ right = VNumber(NaN)
    /\ result[1] = Ok(VBoolean(FALSE))

----------------------------------------------------------------------------
Range(seq) == {seq[i] : i \in DOMAIN seq}

----------------------------------------------------------------------------
(* Claims about variables and environments (checked under Spec).           *)

\* C5: evaluating Var(name) returns the value bound to name when the
\* environment has a binding for it and otherwise fails with
\* UnboundVariable(name), rather than returning something that is not a
\* Value; in the empty initial environment every name is unbound.
C5_VarLookup ==
    [][Evaluating("Var")
        => IF term.text \in DOMAIN heap[env].objects
           THEN /\ mode' = "ret"
                /\ value' = heap[env].objects[term.text]
                /\ value'.kind \in ValueKinds
           ELSE /\ mode' = "error"
                /\ error' = UnboundVariable(term.text)]_vars

\* The addresses of the envs held by the closures in a value.
RECURSIVE EnvsIn(_)
EnvsIn(v) ==
    CASE v.kind = "closure" -> {v.value.env}
      [] v.kind = "tuple" -> EnvsIn(v.fst) \cup EnvsIn(v.snd)
      [] OTHER -> {}

\* The addresses of the envs held by the closures bound in the env at e.
EnvsBoundIn(h, e) ==
    UNION {EnvsIn(h[e].objects[n]) : n \in DOMAIN h[e].objects}

\* The addresses of the envs held by some closure that exists: one being
\* returned, one kept by a suspended invocation, or one bound in an env.
CapturedEnvs ==
    (IF mode \in {"ret", "done"} THEN EnvsIn(value) ELSE {})
    \cup UNION {EnvsIn(stack[i].saved) \cup EnvsIn(stack[i].closure) : i \in DOMAIN stack}
    \cup UNION {EnvsBoundIn(heap, e) : e \in DOMAIN heap}

\* let x = 1; let x = fn() { x }; x()
ShadowedSelf ==
    LetTerm("x", IntTerm(1),
        LetTerm("x", Fn(<<>>, VarTerm("x")), CallTerm(VarTerm("x"), <<>>)))

RecursiveProgramsOf(n) ==
    UNION {SelfProgramsAt(n, n, ps, as) :
             ps \in {q \in Parameters : n \notin Range(q)}, as \in Arguments}

RecursivePrograms == RecursiveProgramsOf("f") \cup RecursiveProgramsOf("x")

\* The body of the closure just called is running, and it is a variable.
BodyVarRunning ==
    /\ mode = "eval"
    /\ stack # <<>>
    /\ Top.term.kind = "Call"
    /\ Top.pc = "body"
    /\ term.kind = "Var"
    /\ Len(stack) < MaxStack

RECURSIVE ReachableFrom(_, _)
ReachableFrom(h, S) ==
    LET T == S \cup UNION {EnvsBoundIn(h, e) : e \in S}
    IN  IF T = S THEN S ELSE ReachableFrom(h, T)

\* A closure holding the env at e is reachable from itself.
OnCycle(h, e) == e \in ReachableFrom(h, EnvsBoundIn(h, e))

----------------------------------------------------------------------------
(* Claims about calls and evaluation order (checked under Spec).           *)

\* let x = 1; let f = fn(y) { x + y }; let x = 100; f(2)
Shadowing ==
    LetTerm("x", IntTerm(1),
        LetTerm("f", Fn(<<"y">>, BinaryTerm(VarTerm("x"), "Add", VarTerm("y"))),
            LetTerm("x", IntTerm(100), CallTerm(VarTerm("f"), <<IntTerm(2)>>))))

LiteralValue(t) ==
    CASE t.kind = "Int" -> VNumber(Fin(t.value))
      [] t.kind = "Str" -> VString(t.value)
      [] t.kind = "Bool" -> VBoolean(t.value)

\* A term whose value can be read off an env: a literal, a variable, a
\* Function literal, or a Print of one.
RECURSIVE IsPlain(_)
IsPlain(t) ==
    \/ t.kind \in {"Int", "Str", "Bool", "Var", "Function"}
    \/ t.kind = "Print" /\ IsPlain(t.value)

\* Whether the plain term t can be evaluated in the env at address a.
RECURSIVE Resolves(_, _)
Resolves(t, a) ==
    CASE t.kind = "Var" -> GetProp(heap[a].objects, t.text).ok
      [] t.kind = "Print" -> Resolves(t.value, a)
      [] OTHER -> TRUE

\* The value of the plain term t in the env at address a.
RECURSIVE PlainValue(_, _)
PlainValue(t, a) ==
    CASE t.kind = "Var" -> GetProp(heap[a].objects, t.text).v
      [] t.kind = "Print" -> PlainValue(t.value, a)
      [] t.kind = "Function" ->
            VClosure(t.value, [i \in DOMAIN t.parameters |-> t.parameters[i].text], a)
      [] OTHER -> LiteralValue(t)

\* interpret(closure.body, functionEnv) has just been entered by a Call.
BodyStart ==
    /\ mode = "eval"
    /\ stack # <<>>
    /\ Top.term.kind = "Call"
    /\ Top.pc = "body"

\* C4: the body of a called closure is evaluated in exactly the closure's
\* captured environment overridden by each parameter, in order, bound to the
\* value its argument expression has in the caller's environment; and
\* let x = 1; let f = fn(y) { x + y }; let x = 100; f(2) yields 3.
C4_CallEnvironment ==
    /\ BodyStart
        => LET closure == Top.closure.value
               ps == closure.parameters
               as == Top.term.arguments
               body == heap[env].objects
               captured == heap[closure.env].objects
           IN  /\ term = closure.body
               /\ env = Top.scope
               /\ env # closure.env
               /\ env # Top.env
               /\ DOMAIN body = DOMAIN captured \cup Range(ps)
               /\ \A n \in DOMAIN captured \ Range(ps) : body[n] = captured[n]
               /\ \A i \in DOMAIN ps :
                    ((\A j \in DOMAIN ps : j > i => ps[j] # ps[i]) /\ IsPlain(as[i]))
                    => /\ Resolves(as[i], Top.env)
                       /\ body[ps[i]] = PlainValue(as[i], Top.env)
    /\ (prog = Shadowing /\ mode = "done") => value = VNumber(Fin(3))

\* let x = 1; let f = fn(y) { x + y }; let x = 100; f(2) has returned 3.
C4_Witness ==
    /\ prog = Shadowing
    /\ mode = "done"
    /\ value = VNumber(Fin(3))

\* print(a) && print(b) and print(a) || print(b), a and b literals
AndOrPrograms ==
    {BinaryTerm(PrintTerm(a), o, PrintTerm(b)) :
        a \in Operands \cap Literals, b \in Operands \cap Literals, o \in {"And", "Or"}}

\* C6: And and Or are not short-circuiting: whatever the lhs returned, the rhs
\* is evaluated next, and only then is the operator applied: to two booleans,
\* and to anything else it fails with TypeMismatch; a Print in the rhs emits
\* its line even when the lhs decides the result.
C6_AndOrStrict ==
    [][/\ (Waiting("Binary", "lhs") /\ Top.term.op \in {"And", "Or"})
            => /\ mode' = "eval"
               /\ term' = Top.term.rhs
               /\ env' = Top.env
               /\ output' = output
       /\ (Waiting("Binary", "rhs") /\ Top.term.op \in {"And", "Or"})
            => IF Top.saved.kind = "boolean" /\ value.kind = "boolean"
               THEN /\ mode' = "ret"
                    /\ value' = VBoolean(IF Top.term.op = "And"
                                         THEN Top.saved.value /\ value.value
                                         ELSE Top.saved.value \/ value.value)
               ELSE /\ mode' = "error"
                    /\ error'.error = "TypeMismatch"
       /\ (prog \in AndOrPrograms /\ mode' \in {"done", "error"})
            => /\ output' = <<showValue(LiteralValue(prog.lhs.value)),
                              showValue(LiteralValue(prog.rhs.value))>>
               /\ mode' = "done"
                    <=> (prog.lhs.value.kind = "Bool" /\ prog.rhs.value.kind = "Bool")]_vars

\* print(false) && print(true) has printed both lines and returned false.
C6_Witness ==
    /\ prog = BinaryTerm(PrintTerm(BoolTerm(FALSE)), "And", PrintTerm(BoolTerm(TRUE)))
    /\ mode = "done"
    /\ output = <<"false", "true">>
    /\ value = VBoolean(FALSE)

\* C8: once the callee is evaluated, a callee that is no closure fails with
\* TypeMismatch and a closure with n parameters called with m # n arguments
\* fails with ArityMismatch(n, m), before any argument or the body is
\* evaluated: a Print in an argument emits nothing.
C8_CallChecksFirst ==
    [][/\ (Waiting("Call", "callee") /\ value.kind # "closure")
            => /\ mode' = "error"
               /\ error' = [error |-> "TypeMismatch", type |-> "closure"]
               /\ output' = output
               /\ heap' = heap
       /\ (Waiting("Call", "callee") /\ value.kind = "closure"
             /\ Len(value.value.parameters) # Len(Top.term.arguments))
            => /\ mode' = "error"
               /\ error' = ArityMismatch(Len(value.value.parameters),
                                          Len(Top.term.arguments))
               /\ output' = output
               /\ heap' = heap
       /\ (prog \in CallPrograms /\ mode' = "error"
             /\ error'.error \in {"TypeMismatch", "ArityMismatch"})
            => output' = <<showValue(value)>>]_vars

\* (fn(x, y) { x })(print(2)) has failed with ArityMismatch(2, 1), having
\* printed the callee only.
C8_Witness ==
    /\ prog = CallTerm(PrintTerm(Fn(<<"x", "y">>, VarTerm("x"))), <<PrintTerm(IntTerm(2))>>)
    /\ mode = "error"
    /\ error = ArityMismatch(2, 1)
    /\ output = <<"<#closure>">>

\* What an evaluation leaves: whether it returned (v the Value) or threw
\* (v the Error), the heap, and the lines printed so far.
Outcome(ok, v, h, out) == [ok |-> ok, v |-> v, heap |-> h, output |-> out]

\* Evaluation as C9 describes it: depth-first and left to right, each
\* sub-evaluation starting from the heap and the lines its predecessor left,
\* and the first error ending the whole evaluation with the lines printed
\* until then.  Tuple: first, then second.  Binary: lhs, then rhs.  Let:
\* value, then next.  Call: callee, then the arguments in order, then the
\* body.  If: condition, then the taken branch only.  Print: the inner term,
\* then its own line.
RECURSIVE DepthFirst(_, _, _, _, _)
RECURSIVE DepthFirstArguments(_, _, _, _, _, _, _, _)
DepthFirst(t, e, h, out, depth) ==
    IF depth >= MaxStack THEN Outcome(FALSE, [error |-> "RangeError"], h, out)
    ELSE
    CASE t.kind \in {"Int", "Str", "Bool"} -> Outcome(TRUE, LiteralValue(t), h, out)
      [] t.kind = "Var" ->
            LET v == GetProp(h[e].objects, t.text)
            IN  IF v.ok THEN Outcome(TRUE, v.v, h, out)
                ELSE Outcome(FALSE, UnboundVariable(t.text), h, out)
      [] t.kind = "Function" ->
            Outcome(TRUE,
                    VClosure(t.value,
                             [i \in DOMAIN t.parameters |-> t.parameters[i].text], e),
                    h, out)
      [] t.kind = "If" ->
            LET c == DepthFirst(t.condition, e, h, out, depth + 1)
                b == assertBool(c.v)
            IN  IF ~c.ok THEN c
                ELSE IF ~b.ok THEN Outcome(FALSE, b.v, c.heap, c.output)
                ELSE DepthFirst(IF b.v THEN t.then ELSE t.otherwise,
                                e, c.heap, c.output, depth + 1)
      [] t.kind = "Tuple" ->
            LET a == DepthFirst(t.first, e, h, out, depth + 1)
                b == DepthFirst(t.second, e, a.heap, a.output, depth + 1)
            IN  IF ~a.ok THEN a
                ELSE IF ~b.ok THEN b
                ELSE Outcome(TRUE, VTuple(a.v, b.v), b.heap, b.output)
      [] t.kind \in {"First", "Second"} ->
            LET a == DepthFirst(t.value, e, h, out, depth + 1)
                pair == assertTuple(a.v)
            IN  IF ~a.ok THEN a
                ELSE IF ~pair.ok THEN Outcome(FALSE, pair.v, a.heap, a.output)
                ELSE Outcome(TRUE, pair.v[IF t.kind = "First" THEN 1 ELSE 2],
                             a.heap, a.output)
      [] t.kind = "Binary" ->
            LET a == DepthFirst(t.lhs, e, h, out, depth + 1)
                b == DepthFirst(t.rhs, e, a.heap, a.output, depth + 1)
                r == interpretBinary(a.v, b.v, t.op)
            IN  IF ~a.ok THEN a
                ELSE IF ~b.ok THEN b
                ELSE Outcome(r.ok, r.v, b.heap, b.output)
      [] t.kind = "Print" ->
            LET a == DepthFirst(t.value, e, h, out, depth + 1)
            IN  IF ~a.ok THEN a
                ELSE Outcome(TRUE, a.v, a.heap, Append(a.output, showValue(a.v)))
      [] t.kind = "Let" ->
            LET newEnv == NewAddress(h)
                a == DepthFirst(t.value, newEnv, cloneEnv(h, e), out, depth + 1)
                bound == [a.heap EXCEPT ![newEnv].objects = SetProp(@, t.name.text, a.v)]
            IN  IF ~a.ok THEN a
                ELSE DepthFirst(t.next, newEnv, bound, a.output, depth + 1)
      [] t.kind = "Call" ->
            LET c == DepthFirst(t.callee, e, h, out, depth + 1)
                closure == assertClosure(c.v)
                functionEnv == NewAddress(c.heap)
                as == DepthFirstArguments(t, e, closure.v, functionEnv, 1,
                                          cloneEnv(c.heap, closure.v.env), c.output,
                                          depth)
            IN  IF ~c.ok THEN c
                ELSE IF ~closure.ok THEN Outcome(FALSE, closure.v, c.heap, c.output)
                ELSE IF Len(closure.v.parameters) # Len(t.arguments)
                THEN Outcome(FALSE,
                             ArityMismatch(Len(closure.v.parameters), Len(t.arguments)),
                             c.heap, c.output)
                ELSE IF ~as.ok THEN as
                ELSE DepthFirst(closure.v.body, functionEnv, as.heap, as.output,
                                depth + 1)

\* The arguments from the i-th on, each evaluated in the caller's env e and
\* bound to its parameter in functionEnv.
DepthFirstArguments(t, e, closure, functionEnv, i, h, out, depth) ==
    IF i > Len(closure.parameters) THEN Outcome(TRUE, NoValue, h, out)
    ELSE LET a == DepthFirst(t.arguments[i], e, h, out, depth + 1)
             bound == [a.heap EXCEPT ![functionEnv].objects =
                                        SetProp(@, closure.parameters[i], a.v)]
         IN  IF ~a.ok THEN a
             ELSE DepthFirstArguments(t, e, closure, functionEnv, i + 1,
                                      bound, a.output, depth)

IsPrefix(s, t) == Len(s) <= Len(t) /\ SubSeq(t, 1, Len(s)) = s

\* C9: the lines printed during an evaluation are those of the Print nodes
\* completed in depth-first, left-to-right order, each the display text of the
\* value its Print returns; the lines printed before an error remain and none
\* follows it.
C9_PrintOrder ==
    LET expected == DepthFirst(prog, 1, <<[objects |-> EmptyObjects]>>, <<>>, 0)
    IN  /\ IsPrefix(output, expected.output)
        /\ mode = "done" => expected.ok /\ output = expected.output /\ value = expected.v
        /\ mode = "error" => ~expected.ok /\ output = expected.output /\ error = expected.v

\* The countdown from 2 has printed 2, 1 and 0, in that order.
C9_Witness ==
    /\ prog = CountDown(2)
    /\ mode = "done"
    /\ output = <<"2", "1", "0">>

====
